---------------------------- MODULE Spec2Model ----------------------------
(***************************************************************************)
(* The Fingerprint Index Engine of content-refactor-engine:                *)
(*   backend/services/fingerprint_engine.py  (normalize, shingle, hash,    *)
(*                                            index_document, lookup)      *)
(*   backend/models/index_db.py              (schema, stats)               *)
(* Text is a TLA+ string over ASCII; a 32-bit unsigned word is the pair    *)
(* <<high 16 bits, low 16 bits>>, so that no intermediate value leaves     *)
(* the range of TLC's integers.                                           *)
(***************************************************************************)
EXTENDS Integers, Sequences, FiniteSets, TLC

(***************************************************************************)
(* Characters and strings (Python str, bytes of str.encode()).             *)
(***************************************************************************)
\* The printable ASCII characters a string literal can hold: codes 32..95 and
\* 97..126 (the grave accent, code 96, is left out of the modelled alphabet).
PrintableLow == " !\"#$%&'()*+,-./0123456789:;<=>?@ABCDEFGHIJKLMNOPQRSTUVWXYZ[\\]^_"
PrintableHigh == "abcdefghijklmnopqrstuvwxyz{|}~"
UpperCase == "ABCDEFGHIJKLMNOPQRSTUVWXYZ"
LowerCase == "abcdefghijklmnopqrstuvwxyz"
Digits == "0123456789"
HexDigits == "0123456789abcdef"

CharAt(s, i) == SubSeq(s, i, i)

\* str.find for a single character, 1-based; 0 when absent.
IndexOf(c, s) ==
  IF \E i \in 1..Len(s) : CharAt(s, i) = c
  THEN CHOOSE i \in 1..Len(s) : CharAt(s, i) = c /\ \A j \in 1..(i-1) : CharAt(s, j) # c
  ELSE 0

\* The code point of an ASCII character (one byte under UTF-8).
ord(c) ==
  CASE c = "\t" -> 9
    [] c = "\n" -> 10
    [] c = "\f" -> 12
    [] c = "\r" -> 13
    [] IndexOf(c, PrintableLow) > 0 -> 31 + IndexOf(c, PrintableLow)
    [] OTHER -> 96 + IndexOf(c, PrintableHigh)

\* str.encode(): the UTF-8 bytes of an ASCII string.
encode(s) == [i \in 1..Len(s) |-> ord(CharAt(s, i))]

\* str.lower() on one character.
lower_char(c) ==
  IF IndexOf(c, UpperCase) > 0 THEN CharAt(LowerCase, IndexOf(c, UpperCase)) ELSE c

\* Python's whitespace class (\s of re, str.split, str.strip) within ASCII.
IsSpace(c) == c \in {" ", "\t", "\n", "\r", "\f"}

\* The characters the pattern [^a-z0-9\s\-] leaves in place.
IsKept(c) == IndexOf(c, LowerCase) > 0 \/ IndexOf(c, Digits) > 0 \/ IsSpace(c) \/ c = "-"

\* The concatenation of the strings parts[lo..hi], halving the range so that
\* the evaluation depth stays logarithmic in the length.
RECURSIVE Concat(_, _, _)
Concat(parts, lo, hi) ==
  IF lo > hi THEN ""
  ELSE IF lo = hi THEN parts[lo]
  ELSE LET mid == (lo + hi) \div 2
       IN Concat(parts, lo, mid) \o Concat(parts, mid + 1, hi)

\* text.lower()
MapLower(s) == Concat([i \in 1..Len(s) |-> lower_char(CharAt(s, i))], 1, Len(s))

\* A variant that puts a space where it removes a character.
punct_to_space(s) ==
  Concat([i \in 1..Len(s) |-> IF IsKept(CharAt(s, i)) THEN CharAt(s, i) ELSE " "], 1, Len(s))

\* re.sub(r'[^a-z0-9\s\-]', '', text)
StripPunct(s) ==
  Concat([i \in 1..Len(s) |-> IF IsKept(CharAt(s, i)) THEN CharAt(s, i) ELSE ""], 1, Len(s))

\* re.sub(r'\s+', ' ', s): every maximal run of whitespace becomes one space.
CollapseSpace(s) ==
  Concat([i \in 1..Len(s) |->
            IF ~IsSpace(CharAt(s, i)) THEN CharAt(s, i)
            ELSE IF i < Len(s) /\ IsSpace(CharAt(s, i + 1)) THEN "" ELSE " "],
         1, Len(s))

\* str.strip(): without its leading and trailing whitespace
strip(s) ==
  LET solid == {i \in 1..Len(s) : ~IsSpace(CharAt(s, i))} IN
  IF solid = {} THEN ""
  ELSE SubSeq(s, CHOOSE i \in solid : \A j \in solid : i <= j,
                 CHOOSE i \in solid : \A j \in solid : j <= i)

\* str.split(): the maximal runs of non-whitespace, in order.
split(s) ==
  LET starts == {i \in 1..Len(s) :
                   ~IsSpace(CharAt(s, i)) /\ (i = 1 \/ IsSpace(CharAt(s, i - 1)))}
      ends == {i \in 1..Len(s) :
                 ~IsSpace(CharAt(s, i)) /\ (i = Len(s) \/ IsSpace(CharAt(s, i + 1)))}
      kth(S, k) == CHOOSE i \in S : Cardinality({j \in S : j <= i}) = k
  IN [k \in 1..Cardinality(starts) |-> SubSeq(s, kth(starts, k), kth(ends, k))]

\* " ".join(words)
join(words) ==
  Concat([i \in 1..Len(words) |-> IF i = 1 THEN words[i] ELSE " " \o words[i]],
         1, Len(words))

(***************************************************************************)
(* 1. Text Normalization                                                   *)
(***************************************************************************)
\* A variant that strips before the punctuation is removed.
normalize_strip_first(text) == CollapseSpace(StripPunct(strip(MapLower(text))))

normalize_text(text) == strip(CollapseSpace(StripPunct(MapLower(text))))

(***************************************************************************)
(* 2. Shingling                                                            *)
(***************************************************************************)
ShingleSize == 5

\* A variant whose loop stops one window early.
shingles_without_last(text, n) ==
  LET words == split(text) IN
  IF Len(words) < n
  THEN (IF text # "" THEN <<text>> ELSE <<>>)
  ELSE [i \in 1..(Len(words) - n) |-> join(SubSeq(words, i, i + n - 1))]

\* A variant whose windows do not overlap.
shingles_by_stride(text, n) ==
  LET words == split(text) IN
  IF Len(words) < n
  THEN (IF text # "" THEN <<text>> ELSE <<>>)
  ELSE [i \in 1..(Len(words) \div n) |->
          join(SubSeq(words, (i - 1) * n + 1, i * n))]

generate_shingles(text, n) ==
  LET words == split(text) IN
  IF Len(words) < n
  THEN (IF text # "" THEN <<text>> ELSE <<>>)
  ELSE [i \in 1..(Len(words) - n + 1) |-> join(SubSeq(words, i, i + n - 1))]

(***************************************************************************)
(* 32-bit unsigned words as <<high 16 bits, low 16 bits>>.                 *)
(***************************************************************************)
Half == 2 ^ 16

Pow2(k) == 2 ^ k

RECURSIVE And16(_, _)
And16(a, b) ==
  IF a = 0 \/ b = 0 THEN 0
  ELSE ((a % 2) * (b % 2)) + (2 * And16(a \div 2, b \div 2))

Or16(a, b) == a + b - And16(a, b)
Xor16(a, b) == a + b - (2 * And16(a, b))

And32(x, y) == <<And16(x[1], y[1]), And16(x[2], y[2])>>
Or32(x, y) == <<Or16(x[1], y[1]), Or16(x[2], y[2])>>
Xor32(x, y) == <<Xor16(x[1], y[1]), Xor16(x[2], y[2])>>
Not32(x) == <<Half - 1 - x[1], Half - 1 - x[2]>>

\* (x + y) mod 2^32
Add32(x, y) ==
  LET lo == x[2] + y[2] IN <<(x[1] + y[1] + (lo \div Half)) % Half, lo % Half>>

\* The full 32-bit product of two 16-bit numbers.
Mul16(a, b) ==
  LET p0 == a * (b % 256)
      p1 == a * (b \div 256)
      lo == p0 + ((p1 % 256) * 256)
  IN <<((lo \div Half) + (p1 \div 256)) % Half, lo % Half>>

\* (x * y) mod 2^32
Mul32(x, y) ==
  LET ll == Mul16(x[2], y[2])
      hl == Mul16(x[1], y[2])
      lh == Mul16(x[2], y[1])
  IN <<(ll[1] + hl[2] + lh[2]) % Half, ll[2]>>

\* x rotated left by r bits, 0 <= r < 32
Rotl32(x, r) ==
  LET y == IF r >= 16 THEN <<x[2], x[1]>> ELSE x
      s == r % 16
  IN <<((y[1] * Pow2(s)) % Half) + (y[2] \div Pow2(16 - s)),
       ((y[2] * Pow2(s)) % Half) + (y[1] \div Pow2(16 - s))>>

\* x >> r, 0 <= r < 32
Shr32(x, r) ==
  IF r >= 16 THEN <<0, x[1] \div Pow2(r - 16)>>
  ELSE <<x[1] \div Pow2(r), (x[2] \div Pow2(r)) + ((x[1] % Pow2(r)) * Pow2(16 - r))>>

\* The little-endian word of four bytes.
WordLE(b0, b1, b2, b3) == <<(b3 * 256) + b2, (b1 * 256) + b0>>

(***************************************************************************)
(* 3. MurmurHash3 (x86, 32 bit, seed 0): mmh3.hash(shingle, signed=False)  *)
(***************************************************************************)
MurmurC1 == <<52382, 11601>>   \* 0xcc9e2d51
MurmurC2 == <<7047, 13715>>    \* 0x1b873593
MurmurN == <<58964, 27492>>    \* 0xe6546b64
MurmurF1 == <<34283, 51819>>   \* 0x85ebca6b
MurmurF2 == <<49842, 44597>>   \* 0xc2b2ae35
MurmurSeed == <<0, 0>>

MurmurScramble(k) == Mul32(Rotl32(Mul32(k, MurmurC1), 15), MurmurC2)

\* One 4-byte block (blocks are numbered from 0) mixed into h.
MurmurBlock(bytes, j, h) ==
  LET k == WordLE(bytes[(4*j) + 1], bytes[(4*j) + 2], bytes[(4*j) + 3], bytes[(4*j) + 4])
      h1 == Rotl32(Xor32(h, MurmurScramble(k)), 13)
  IN Add32(Mul32(h1, <<0, 5>>), MurmurN)

\* The blocks lo..hi-1 mixed into h in order (the range is halved so that the
\* evaluation depth stays logarithmic).
RECURSIVE MurmurBody(_, _, _, _)
MurmurBody(bytes, lo, hi, h) ==
  IF lo >= hi THEN h
  ELSE IF hi = lo + 1 THEN MurmurBlock(bytes, lo, h)
  ELSE LET mid == (lo + hi) \div 2
           hm == MurmurBody(bytes, lo, mid, h)
       IN IF hm[1] >= 0 THEN MurmurBody(bytes, mid, hi, hm) ELSE hm

MurmurTail(bytes, h) ==
  LET n == Len(bytes)
      t == n % 4
      base == n - t
      k == WordLE(IF t >= 1 THEN bytes[base+1] ELSE 0,
                  IF t >= 2 THEN bytes[base+2] ELSE 0,
                  IF t >= 3 THEN bytes[base+3] ELSE 0, 0)
  IN IF t = 0 THEN h ELSE Xor32(h, MurmurScramble(k))

MurmurFmix(h) ==
  LET h1 == Xor32(h, Shr32(h, 16))
      h2 == Mul32(h1, MurmurF1)
      h3 == Xor32(h2, Shr32(h2, 13))
      h4 == Mul32(h3, MurmurF2)
  IN Xor32(h4, Shr32(h4, 16))

mmh3_hash(s) ==
  LET bytes == encode(s)
      h == MurmurTail(bytes, MurmurBody(bytes, 0, Len(bytes) \div 4, MurmurSeed))
  IN MurmurFmix(Xor32(h, <<Len(bytes) \div Half, Len(bytes) % Half>>))

\* A variant whose hash depends on where in the list the shingle stands.
hash_shingles_salted(shingles) ==
  [i \in 1..Len(shingles) |-> Add32(mmh3_hash(shingles[i]), <<0, i - 1>>)]

hash_shingles(shingles) == [i \in 1..Len(shingles) |-> mmh3_hash(shingles[i])]

(***************************************************************************)
(* 4. Master Fingerprint Generator                                         *)
(***************************************************************************)
generate_fingerprints(text) ==
  hash_shingles(generate_shingles(normalize_text(text), ShingleSize))

(***************************************************************************)
(* hashlib.md5(url.encode()).hexdigest()  (RFC 1321)                       *)
(***************************************************************************)
Md5K ==
  << <<55146, 42104>>, <<59591, 46934>>, <<9248, 28891>>, <<49597, 52974>>,
     <<62844, 4015>>, <<18311, 50730>>, <<43056, 17939>>, <<64838, 38145>>,
     <<27008, 39128>>, <<35652, 63407>>, <<65535, 23473>>, <<35164, 55230>>,
     <<27536, 4386>>, <<64920, 29075>>, <<42617, 17294>>, <<18868, 2081>>,
     <<63006, 9570>>, <<49216, 45888>>, <<9822, 23121>>, <<59830, 51114>>,
     <<54831, 4189>>, <<580, 5203>>, <<55457, 59009>>, <<59347, 64456>>,
     <<8673, 52710>>, <<49975, 2006>>, <<62677, 3463>>, <<17754, 5357>>,
     <<43491, 59653>>, <<64751, 41976>>, <<26479, 729>>, <<36138, 19594>>,
     <<65530, 14658>>, <<34673, 63105>>, <<28061, 24866>>, <<64997, 14348>>,
     <<42174, 59972>>, <<19422, 53161>>, <<63163, 19296>>, <<48831, 48240>>,
     <<10395, 32454>>, <<60065, 10234>>, <<54511, 12421>>, <<1160, 7429>>,
     <<55764, 53305>>, <<59099, 39397>>, <<8098, 31992>>, <<50348, 22117>>,
     <<62505, 8772>>, <<17194, 65431>>, <<43924, 9127>>, <<64659, 41017>>,
     <<25947, 22979>>, <<36620, 52370>>, <<65519, 62589>>, <<34180, 24017>>,
     <<28584, 32335>>, <<65068, 59104>>, <<41729, 17172>>, <<19976, 4513>>,
     <<63315, 32386>>, <<48442, 62005>>, <<10967, 53947>>, <<60294, 54161>> >>

Md5S ==
  << 7, 12, 17, 22, 7, 12, 17, 22, 7, 12, 17, 22, 7, 12, 17, 22,
     5, 9, 14, 20, 5, 9, 14, 20, 5, 9, 14, 20, 5, 9, 14, 20,
     4, 11, 16, 23, 4, 11, 16, 23, 4, 11, 16, 23, 4, 11, 16, 23,
     6, 10, 15, 21, 6, 10, 15, 21, 6, 10, 15, 21, 6, 10, 15, 21 >>

Md5Init == << <<26437, 8961>>, <<61389, 43913>>, <<39098, 56574>>, <<4146, 21622>> >>

\* The message padded to a multiple of 64 bytes: 0x80, zeros, the bit length
\* in 64 bits little-endian (messages shorter than 2^13 bytes).
Md5Pad(bytes) ==
  LET n == Len(bytes)
      zeros == (119 - (n % 64)) % 64
      bits == 8 * n
  IN bytes \o <<128>> \o [i \in 1..zeros |-> 0]
       \o <<bits % 256, bits \div 256, 0, 0, 0, 0, 0, 0>>

\* Word g (0..15) of the block starting at byte offset off.
Md5Word(msg, off, g) ==
  WordLE(msg[off + (4*g) + 1], msg[off + (4*g) + 2], msg[off + (4*g) + 3], msg[off + (4*g) + 4])

Md5F(i, b, c, d) ==
  IF i < 16 THEN Or32(And32(b, c), And32(Not32(b), d))
  ELSE IF i < 32 THEN Or32(And32(d, b), And32(Not32(d), c))
  ELSE IF i < 48 THEN Xor32(b, Xor32(c, d))
  ELSE Xor32(c, Or32(b, Not32(d)))

Md5G(i) ==
  IF i < 16 THEN i
  ELSE IF i < 32 THEN ((5 * i) + 1) % 16
  ELSE IF i < 48 THEN ((3 * i) + 5) % 16
  ELSE (7 * i) % 16

\* Round i (0..63) on the state <<A, B, C, D>>.
Md5Round(msg, off, i, st) ==
  LET f == Add32(Add32(Md5F(i, st[2], st[3], st[4]), st[1]),
                 Add32(Md5K[i + 1], Md5Word(msg, off, Md5G(i))))
  IN <<st[4], Add32(st[2], Rotl32(f, Md5S[i + 1])), st[2], st[3]>>

\* Rounds lo..hi-1 in order (the range is halved so that the evaluation depth
\* stays logarithmic).
RECURSIVE Md5Rounds(_, _, _, _, _)
Md5Rounds(msg, off, lo, hi, st) ==
  IF hi = lo + 1 THEN Md5Round(msg, off, lo, st)
  ELSE LET mid == (lo + hi) \div 2
           sm == Md5Rounds(msg, off, lo, mid, st)
       IN IF sm[1][1] >= 0 THEN Md5Rounds(msg, off, mid, hi, sm) ELSE sm

RECURSIVE Md5Blocks(_, _, _)
Md5Blocks(msg, off, st) ==
  IF off >= Len(msg) THEN st
  ELSE LET r == Md5Rounds(msg, off, 0, 64, st)
           nx == <<Add32(st[1], r[1]), Add32(st[2], r[2]),
                   Add32(st[3], r[3]), Add32(st[4], r[4])>>
       IN IF nx[1][1] >= 0 THEN Md5Blocks(msg, off + 64, nx) ELSE nx

HexByte(b) == CharAt(HexDigits, (b \div 16) + 1) \o CharAt(HexDigits, (b % 16) + 1)

\* The eight hex digits of a word's bytes, least significant byte first.
HexWordLE(w) ==
  HexByte(w[2] % 256) \o HexByte(w[2] \div 256) \o HexByte(w[1] % 256) \o HexByte(w[1] \div 256)

md5_hexdigest(s) ==
  LET st == Md5Blocks(Md5Pad(encode(s)), 0, Md5Init)
  IN HexWordLE(st[1]) \o HexWordLE(st[2]) \o HexWordLE(st[3]) \o HexWordLE(st[4])

(***************************************************************************)
(* The store: one SQLite database file shared by every call.               *)
(* sqlite3.connect() with default arguments: rollback-journal mode,        *)
(* file locks SHARED / RESERVED / PENDING / EXCLUSIVE, a busy timeout      *)
(* after which a blocked statement raises "database is locked", and        *)
(* Python's implicit BEGIN before the first INSERT of a connection.        *)
(***************************************************************************)
Procs == {"p1", "p2"}
NoProc == "none"
MaxCalls == 3

Urls == {"a.io/1", "a.io/2"}
IndexTexts == {"?! ", "Hi", "x x x x x x"}
QueryTexts == {"?! ", "Hi", "x x x x x x"}
TopKs == {1, 5}

\* The stores and queries of the lookup-only behaviours.
LookupCalls == 2
StoreTexts == {"Hi", "y x x x x x", "x x x x x x x"}
LookupTexts == {"?! ", "Hi", "zz", "x x x x x", "y x x x x x z", "x x x x x x x"}
LookupTopKs == {0, 1, 5}
SnippetLen == 500

\* The fingerprints of the texts and the ids of the urls the model uses,
\* computed once.
FingerprintsOf ==
  [t \in IndexTexts \cup QueryTexts \cup StoreTexts \cup LookupTexts |->
     generate_fingerprints(t)]
DocIdOf == [u \in Urls |-> md5_hexdigest(u)]

VARIABLES
  schema,        \* TRUE once the tables of init_index_tables exist
  documents,     \* committed rows of indexed_documents, in rowid order
  fingerprints,  \* committed rows of fingerprints, in rowid order
  reserved,      \* the connection holding RESERVED or higher, or NoProc
  pending,       \* TRUE when that connection holds PENDING (no new readers)
  shared,        \* the connections holding a SHARED lock for a running query
  pc,            \* per connection: the statement its call executes next
  op,            \* per connection: the call's name and arguments
  txn,           \* per connection: rows written and not yet committed
  sent,          \* per connection: rows of executemany executed so far
  cursor,        \* per connection: the rows its running SELECT produced
  outcome,       \* per connection: "none", "returned", "raised", "interrupted"
  ret,           \* per connection: the value the last call returned
  \* history (read by no operation):
  ncalls,        \* calls started so far
  source,        \* per committed document row: the text it was indexed with
  wrote,         \* per connection: has its call changed the committed rows
  exc,           \* per connection: the exception its call met, or "none"
  reached,       \* per connection: the last statement its call executed
  pre            \* per connection: was the url's row (for a lookup: an entry
                 \* with a hash of the query) committed at call start

store == <<schema, documents, fingerprints>>
locks == <<reserved, pending, shared>>
vars == <<schema, documents, fingerprints, reserved, pending, shared,
          pc, op, txn, sent, cursor, outcome, ret, ncalls, source, wrote, exc, reached, pre>>

EmptyTxn == [documents |-> <<>>, fingerprints |-> <<>>]
NoOp == [name |-> "none"]
NoResult == [status |-> "none"]

Min(a, b) == IF a < b THEN a ELSE b

\* One id for every url.
same_id(url) == DocIdOf[CHOOSE u \in Urls : TRUE]

\* doc_id = hashlib.md5(url.encode()).hexdigest()
doc_id_of(url) == DocIdOf[url]

\* A connection that commits every statement by itself.
autocommit == "None"

\* The isolation_level of sqlite3.connect() by default: "" opens a transaction
\* implicitly before an INSERT; "None" would commit every statement by itself.
isolation_level == ""

\* fingerprints = generate_fingerprints(text)
fingerprints_of(text) == FingerprintsOf[text]

\* An existence check that finds nothing.
no_row(docs, id) == FALSE

\* SELECT id FROM indexed_documents WHERE id = ? ... fetchone()
row_exists(docs, id) == \E i \in 1..Len(docs) : docs[i].id = id

\* (doc_id, url, text[:500], len(text.split()))
document_row(url, text) ==
  [id |-> doc_id_of(url), url |-> url,
   content_snippet |-> SubSeq(text, 1, Min(SnippetLen, Len(text))),
   word_count |-> Len(split(text))]

\* A table without the two constraints.
unconstrained(docs, row) == FALSE

\* id TEXT PRIMARY KEY, url TEXT UNIQUE NOT NULL
unique_violation(docs, row) ==
  \E i \in 1..Len(docs) : docs[i].id = row.id \/ docs[i].url = row.url

\* One row per distinct hash instead of one per shingle.
fp_rows_distinct(fps, id) ==
  LET firsts == {i \in 1..Len(fps) : \A j \in 1..(i - 1) : fps[j] # fps[i]}
      kth(k) == CHOOSE i \in firsts : Cardinality({j \in firsts : j < i}) = k - 1
  IN [k \in 1..Cardinality(firsts) |->
        [fingerprint_hash |-> fps[kth(k)], document_id |-> id]]

\* fp_rows = [(fp, doc_id) for fp in fingerprints]
fp_rows(fps, id) ==
  [i \in 1..Len(fps) |-> [fingerprint_hash |-> fps[i], document_id |-> id]]

\* A close that commits the open transaction.
commit_on_close(t) == t

\* conn.close() on a connection with an open transaction: what of the
\* transaction reaches the file. Nothing: the transaction is rolled back.
close(t) == EmptyTxn

\* A CREATE TABLE that starts the table afresh.
create_table(rows) == <<>>

\* CREATE TABLE IF NOT EXISTS: the rows of an existing table stay.
create_table_if_not_exists(rows) == rows

\* A check of the fingerprint list that never finds it empty.
never_empty(fps) == FALSE

\* if not fingerprints (line 131)
no_fingerprints(fps) == fps = <<>>

\* A result that always reports no fingerprint.
index_result_zero(status, n, id) ==
  [status |-> status, fingerprint_count |-> 0, doc_id |-> id]

\* {"status": ..., "fingerprint_count": ..., "doc_id": ...}
index_result(status, n, id) == [status |-> status, fingerprint_count |-> n, doc_id |-> id]

Init ==
  /\ schema = FALSE
  /\ documents = <<>>
  /\ fingerprints = <<>>
  /\ reserved = NoProc
  /\ pending = FALSE
  /\ shared = {}
  /\ pc = [p \in Procs |-> "idle"]
  /\ op = [p \in Procs |-> NoOp]
  /\ txn = [p \in Procs |-> EmptyTxn]
  /\ sent = [p \in Procs |-> 0]
  /\ cursor = [p \in Procs |-> <<>>]
  /\ outcome = [p \in Procs |-> "none"]
  /\ ret = [p \in Procs |-> NoResult]
  /\ ncalls = 0
  /\ source = <<>>
  /\ wrote = [p \in Procs |-> FALSE]
  /\ exc = [p \in Procs |-> "none"]
  /\ reached = [p \in Procs |-> "none"]
  /\ pre = [p \in Procs |-> FALSE]

\* A variant in which the file is rewritten from the rows t of connection p.
persist_replacing(p, t) ==
  /\ documents' = t.documents
  /\ fingerprints' = t.fingerprints
  /\ source' = [i \in 1..Len(t.documents) |-> op[p].text]
  /\ wrote' = [wrote EXCEPT ![p] = @ \/ t # EmptyTxn]

\* The rows t of connection p become part of the file.
Persist(p, t) ==
  /\ documents' = documents \o t.documents
  /\ fingerprints' = fingerprints \o t.fingerprints
  /\ source' = source \o [i \in 1..Len(t.documents) |-> op[p].text]
  /\ wrote' = [wrote EXCEPT ![p] = @ \/ t # EmptyTxn]

NoPersist == UNCHANGED <<documents, fingerprints, source, wrote>>

\* Whatever locks p holds are dropped (conn.close(), or the process dying).
Unlock(p) ==
  /\ reserved' = IF reserved = p THEN NoProc ELSE reserved
  /\ pending' = IF reserved = p THEN FALSE ELSE pending
  /\ shared' = shared \ {p}

\* The call of p ends: conn.close(), then return (or raise).
Finish(p, how, value, e) ==
  /\ pc' = [pc EXCEPT ![p] = "idle"]
  /\ outcome' = [outcome EXCEPT ![p] = how]
  /\ ret' = [ret EXCEPT ![p] = value]
  /\ exc' = [exc EXCEPT ![p] = e]
  /\ Persist(p, close(txn[p]))
  /\ txn' = [txn EXCEPT ![p] = EmptyTxn]
  /\ sent' = [sent EXCEPT ![p] = 0]
  /\ cursor' = [cursor EXCEPT ![p] = <<>>]
  /\ Unlock(p)

\* except Exception: conn.close(); return {"status": "error", ...}
IndexExcept(p, e) ==
  Finish(p, "returned", index_result("error", 0, doc_id_of(op[p].url)), e)

(***************************************************************************)
(* init_index_tables(): CREATE TABLE / INDEX IF NOT EXISTS, commit.        *)
(***************************************************************************)
init_index_tables(p) ==
  /\ pc[p] = "idle"
  /\ ~schema => (reserved = NoProc /\ shared = {})
  /\ schema' = TRUE
  /\ documents' = create_table_if_not_exists(documents)
  /\ fingerprints' = create_table_if_not_exists(fingerprints)
  /\ source' = SubSeq(source, 1, Len(documents'))
  /\ UNCHANGED <<locks, pc, op, txn, sent, cursor, outcome, ret,
                 ncalls, wrote, exc, reached, pre>>

(***************************************************************************)
(* 5. index_document(url, text)                                            *)
(***************************************************************************)
\* lines 116-119: the id, then sqlite3.connect() outside the try block
index_document(p, url, text, opened) ==
  /\ pc[p] = "idle"
  /\ ncalls < MaxCalls
  /\ ncalls' = ncalls + 1
  /\ op' = [op EXCEPT ![p] = [name |-> "index_document", url |-> url, text |-> text]]
  /\ pre' = [pre EXCEPT ![p] = \E i \in 1..Len(documents) : documents[i].url = url]
  /\ wrote' = [wrote EXCEPT ![p] = FALSE]
  /\ reached' = [reached EXCEPT ![p] = "connect"]
  /\ ret' = [ret EXCEPT ![p] = NoResult]
  /\ IF opened
     THEN /\ pc' = [pc EXCEPT ![p] = "select"]
          /\ outcome' = [outcome EXCEPT ![p] = "none"]
          /\ exc' = [exc EXCEPT ![p] = "none"]
     ELSE /\ pc' = [pc EXCEPT ![p] = "idle"]
          /\ outcome' = [outcome EXCEPT ![p] = "raised"]
          /\ exc' = [exc EXCEPT ![p] = "unable to open"]
  /\ UNCHANGED <<store, locks, txn, sent, cursor, source>>

\* lines 122-133: the existence check, then the fingerprints of the text
index_select(p, failed) ==
  /\ pc[p] = "select"
  /\ ~pending
  /\ LET id == doc_id_of(op[p].url)
         found == failed \/ ~schema \/ row_exists(documents, id)
     IN
       /\ reached' = [reached EXCEPT ![p] = IF found THEN "select" ELSE "fingerprints"]
       /\ IF failed THEN IndexExcept(p, "io")
          ELSE IF ~schema THEN IndexExcept(p, "no such table")
          ELSE IF row_exists(documents, id)
            THEN Finish(p, "returned", index_result("skipped", 0, id), "none")
          ELSE IF no_fingerprints(fingerprints_of(op[p].text))
            THEN Finish(p, "returned", index_result("skipped", 0, id), "none")
          ELSE /\ pc' = [pc EXCEPT ![p] = "insert_doc"]
               /\ NoPersist
               /\ UNCHANGED <<locks, txn, sent, cursor, outcome, ret, exc>>
  /\ UNCHANGED <<schema, op, ncalls, pre>>

\* lines 135-140: INSERT INTO indexed_documents, under an implicit BEGIN
index_insert_document(p, failed) ==
  /\ pc[p] = "insert_doc"
  /\ reserved = NoProc
  /\ isolation_level = "None" => shared = {}
  /\ reached' = [reached EXCEPT ![p] = "insert_doc"]
  /\ LET row == document_row(op[p].url, op[p].text)
           written == [documents |-> <<row>>, fingerprints |-> <<>>]
       IN
       IF failed THEN IndexExcept(p, "io")
       ELSE IF unique_violation(documents, row) THEN IndexExcept(p, "integrity")
       ELSE /\ pc' = [pc EXCEPT ![p] =
                      IF fingerprints_of(op[p].text) = <<>> THEN "commit" ELSE "insert_fps"]
            /\ IF isolation_level = "None"
               THEN Persist(p, written) /\ UNCHANGED <<txn, reserved>>
               ELSE /\ txn' = [txn EXCEPT ![p].documents = Append(@, row)]
                    /\ reserved' = p
                    /\ NoPersist
            /\ UNCHANGED <<pending, shared, sent, cursor, outcome, ret, exc>>
  /\ UNCHANGED <<schema, op, ncalls, pre>>

\* lines 142-147: executemany, one INSERT INTO fingerprints per row
index_insert_fingerprint(p, failed) ==
  /\ pc[p] = "insert_fps"
  /\ isolation_level = "None" => (reserved = NoProc /\ shared = {})
  /\ reached' = [reached EXCEPT ![p] = "insert_fps"]
  /\ LET rows == fp_rows(fingerprints_of(op[p].text), doc_id_of(op[p].url))
           i == sent[p] + 1
           written == [documents |-> <<>>, fingerprints |-> <<rows[i]>>]
       IN
       IF failed THEN IndexExcept(p, "io")
       ELSE /\ IF isolation_level = "None"
               THEN Persist(p, written) /\ UNCHANGED txn
               ELSE /\ txn' = [txn EXCEPT ![p].fingerprints = Append(@, rows[i])]
                    /\ NoPersist
            /\ sent' = [sent EXCEPT ![p] = i]
            /\ pc' = [pc EXCEPT ![p] = IF i = Len(rows) THEN "commit" ELSE "insert_fps"]
            /\ UNCHANGED <<locks, cursor, outcome, ret, exc>>
  /\ UNCHANGED <<schema, op, ncalls, pre>>

\* line 149: conn.commit() takes PENDING, which keeps new queries out while it
\* waits for the running ones and writes the file
index_commit_wait(p) ==
  /\ pc[p] = "commit"
  /\ reserved = p
  /\ ~pending
  /\ pending' = TRUE
  /\ UNCHANGED <<store, reserved, shared, pc, op, txn, sent, cursor, outcome, ret,
                 ncalls, source, wrote, exc, reached, pre>>

\* lines 149-152: conn.commit() with the EXCLUSIVE lock, close, return
index_commit(p, failed) ==
  /\ pc[p] = "commit"
  /\ reserved = p => shared = {}
  /\ reached' = [reached EXCEPT ![p] = "commit"]
  /\ IF failed
       THEN IndexExcept(p, "io")
       ELSE /\ Persist(p, txn[p])
            /\ pc' = [pc EXCEPT ![p] = "idle"]
            /\ outcome' = [outcome EXCEPT ![p] = "returned"]
            /\ ret' = [ret EXCEPT ![p] =
                 index_result("indexed", Len(fingerprints_of(op[p].text)),
                              doc_id_of(op[p].url))]
            /\ txn' = [txn EXCEPT ![p] = EmptyTxn]
            /\ sent' = [sent EXCEPT ![p] = 0]
            /\ exc' = [exc EXCEPT ![p] = "none"]
            /\ UNCHANGED cursor
            /\ Unlock(p)
  /\ UNCHANGED <<schema, op, ncalls, pre>>

\* The busy timeout of a statement blocked by another connection's lock:
\* sqlite3.OperationalError("database is locked"), caught at line 154.
index_busy(p) ==
  /\ \/ pc[p] = "select" /\ pending
     \/ pc[p] = "insert_doc" /\ reserved # NoProc
     \/ pc[p] = "commit" /\ reserved = p /\ shared # {}
  /\ reached' = [reached EXCEPT ![p] = pc[p]]
  /\ IndexExcept(p, "locked")
  /\ UNCHANGED <<schema, op, ncalls, pre>>

(***************************************************************************)
(* 6. lookup_fingerprints(text, top_k)                                     *)
(***************************************************************************)
\* Fingerprints of the text as given, without normalize_text.
RawFingerprintsOf ==
  [t \in QueryTexts \cup LookupTexts |-> hash_shingles(generate_shingles(t, ShingleSize))]

raw_fingerprints(text) == RawFingerprintsOf[text]

\* user_fingerprints = generate_fingerprints(text) (line 176)
\* A variant that keeps the first occurrence of each fingerprint only.
distinct_fingerprints(text) ==
  LET fps == FingerprintsOf[text]
      first == {i \in 1..Len(fps) : \A j \in 1..(i - 1) : fps[j] # fps[i]}
      kth(k) == CHOOSE i \in first : Cardinality({j \in first : j <= i}) = k
  IN [k \in 1..Cardinality(first) |-> fps[kth(k)]]

user_fingerprints(text) == FingerprintsOf[text]

\* The hashes of the IN (...) list: membership only, repetition is immaterial.
hash_set(fps) == {fps[i] : i \in 1..Len(fps)}

\* A variant that counts each matched hash of document d once.
match_count_distinct(fp_table, d, hashes) ==
  Cardinality({h \in hashes :
                 \E i \in 1..Len(fp_table) :
                   fp_table[i].document_id = d /\ fp_table[i].fingerprint_hash = h})

\* COUNT of the group of document d: the rows of fingerprints joined to
\* the row of d whose hash is in the IN list.
match_count(fp_table, d, hashes) ==
  Cardinality({i \in 1..Len(fp_table) :
                 fp_table[i].document_id = d /\ fp_table[i].fingerprint_hash \in hashes})

\* Every document a group, matched or not.
all_documents(docs, fp_table, hashes) == 1..Len(docs)

\* The groups of the query: JOIN ... WHERE ... GROUP BY f.document_id.
candidates(docs, fp_table, hashes) ==
  {i \in 1..Len(docs) : match_count(fp_table, docs[i].id, hashes) > 0}

\* The groups in any order at all.
unranked(docs, fp_table, hashes) ==
  LET C == candidates(docs, fp_table, hashes)
      n == Cardinality(C)
  IN {r \in [1..n -> C] : \A i, j \in 1..n : i # j => r[i] # r[j]}

\* ORDER BY match_count DESC: every order of the groups that is non-increasing
\* in match_count (the order among equal counts is SQLite's choice).
rankings(docs, fp_table, hashes) ==
  LET C == candidates(docs, fp_table, hashes)
      n == Cardinality(C)
  IN {r \in [1..n -> C] :
        /\ \A i, j \in 1..n : i # j => r[i] # r[j]
        /\ \A i \in 1..(n - 1) :
             match_count(fp_table, docs[r[i]].id, hashes)
               >= match_count(fp_table, docs[r[i + 1]].id, hashes)}

\* A query without LIMIT.
no_limit(rows, k) == rows

\* LIMIT ?: a negative limit is no limit.
limit(rows, k) == IF k < 0 THEN rows ELSE SubSeq(rows, 1, Min(k, Len(rows)))

\* Truncation to four decimals instead of rounding.
floor4(num, den) == (num * 10000) \div den

\* round(x, 4) of x = num / den, in units of 1/10000; a tie goes to the even
\* neighbour.
round4(num, den) ==
  LET q == (num * 10000) \div den
      r == (num * 10000) % den
  IN IF 2 * r > den \/ (2 * r = den /\ q % 2 = 1) THEN q + 1 ELSE q

\* lines 186-202: the rows of the SELECT, in one of its possible orders
query_rows(docs, fp_table, order, hashes) ==
  [i \in 1..Len(order) |->
     [document_id |-> docs[order[i]].id, url |-> docs[order[i]].url,
      content_snippet |-> docs[order[i]].content_snippet,
      match_count |-> match_count(fp_table, docs[order[i]].id, hashes)]]

\* lines 206-220: one result per row of the query
lookup_results(rows, total) ==
  [i \in 1..Len(rows) |->
     [doc_id |-> rows[i].document_id, url |-> rows[i].url,
      content_snippet |-> rows[i].content_snippet,
      match_count |-> rows[i].match_count, total_fingerprints |-> total,
      similarity |-> IF total > 0 THEN round4(rows[i].match_count, total) ELSE 0]]

\* lines 176-182: the query's fingerprints, then sqlite3.connect()
lookup_fingerprints(p, text, top_k, opened) ==
  /\ pc[p] = "idle"
  /\ ncalls < MaxCalls
  /\ ncalls' = ncalls + 1
  /\ op' = [op EXCEPT ![p] = [name |-> "lookup_fingerprints", text |-> text, top_k |-> top_k]]
  /\ pre' = [pre EXCEPT ![p] =
               \E n \in 1..Len(fingerprints) :
                 \E k \in 1..Len(FingerprintsOf[text]) :
                   fingerprints[n].fingerprint_hash = FingerprintsOf[text][k]]
  /\ wrote' = [wrote EXCEPT ![p] = FALSE]
  /\ ret' = [ret EXCEPT ![p] = <<>>]
  /\ IF user_fingerprints(text) = <<>>
     THEN /\ pc' = [pc EXCEPT ![p] = "idle"]
          /\ outcome' = [outcome EXCEPT ![p] = "returned"]
          /\ exc' = [exc EXCEPT ![p] = "none"]
          /\ reached' = [reached EXCEPT ![p] = "none"]
     ELSE IF opened
     THEN /\ pc' = [pc EXCEPT ![p] = "query"]
          /\ outcome' = [outcome EXCEPT ![p] = "none"]
          /\ exc' = [exc EXCEPT ![p] = "none"]
          /\ reached' = [reached EXCEPT ![p] = "connect"]
     ELSE /\ pc' = [pc EXCEPT ![p] = "idle"]
          /\ outcome' = [outcome EXCEPT ![p] = "raised"]
          /\ exc' = [exc EXCEPT ![p] = "unable to open"]
          /\ reached' = [reached EXCEPT ![p] = "connect"]
  /\ UNCHANGED <<store, locks, txn, sent, cursor, source>>

\* lines 184-202: cursor.execute(query, ...) under a SHARED lock
lookup_query(p, failed) ==
  /\ pc[p] = "query"
  /\ ~pending
  /\ reached' = [reached EXCEPT ![p] = "query"]
  /\ IF failed THEN Finish(p, "returned", <<>>, "io")
     ELSE IF ~schema THEN Finish(p, "returned", <<>>, "no such table")
     ELSE /\ LET hashes == hash_set(user_fingerprints(op[p].text)) IN
            \E order \in rankings(documents, fingerprints, hashes) :
               cursor' = [cursor EXCEPT ![p] =
                            limit(query_rows(documents, fingerprints, order, hashes),
                                  op[p].top_k)]
          /\ shared' = shared \cup {p}
          /\ pc' = [pc EXCEPT ![p] = "fetch"]
          /\ NoPersist
          /\ UNCHANGED <<reserved, pending, txn, sent, outcome, ret, exc>>
  /\ UNCHANGED <<schema, op, ncalls, pre>>

\* lines 203-222: fetchall, close, the result list
lookup_fetch(p) ==
  /\ pc[p] = "fetch"
  /\ Finish(p, "returned",
            lookup_results(cursor[p], Len(user_fingerprints(op[p].text))),
            "none")
  /\ UNCHANGED <<schema, op, ncalls, reached, pre>>

\* The busy timeout of the query: "database is locked", caught at line 224.
lookup_busy(p) ==
  /\ pc[p] = "query"
  /\ pending
  /\ reached' = [reached EXCEPT ![p] = "query"]
  /\ Finish(p, "returned", <<>>, "locked")
  /\ UNCHANGED <<schema, op, ncalls, pre>>

(***************************************************************************)
(* get_index_stats(): two SELECT COUNT statements, each its own read.   *)
(***************************************************************************)
Failures == {"none", "operational", "database"}

stats_result(doc_count, fp_count) == [documents |-> doc_count, fingerprints |-> fp_count]

\* except sqlite3.OperationalError: zeros; any other error leaves the function
stats_except(p, failure) ==
  IF failure = "operational"
  THEN Finish(p, "returned", stats_result(0, 0), "operational")
  ELSE Finish(p, "raised", NoResult, "database")

\* lines 58-59: sqlite3.connect() outside the try block
get_index_stats(p, opened) ==
  /\ pc[p] = "idle"
  /\ ncalls < MaxCalls
  /\ ncalls' = ncalls + 1
  /\ op' = [op EXCEPT ![p] = [name |-> "get_index_stats"]]
  /\ pre' = [pre EXCEPT ![p] = FALSE]
  /\ wrote' = [wrote EXCEPT ![p] = FALSE]
  /\ reached' = [reached EXCEPT ![p] = "connect"]
  /\ ret' = [ret EXCEPT ![p] = NoResult]
  /\ IF opened
     THEN /\ pc' = [pc EXCEPT ![p] = "count_docs"]
          /\ outcome' = [outcome EXCEPT ![p] = "none"]
          /\ exc' = [exc EXCEPT ![p] = "none"]
     ELSE /\ pc' = [pc EXCEPT ![p] = "idle"]
          /\ outcome' = [outcome EXCEPT ![p] = "raised"]
          /\ exc' = [exc EXCEPT ![p] = "unable to open"]
  /\ UNCHANGED <<store, locks, txn, sent, cursor, source>>

\* lines 62-63: SELECT COUNT FROM indexed_documents
stats_count_documents(p, failure) ==
  /\ pc[p] = "count_docs"
  /\ ~pending
  /\ reached' = [reached EXCEPT ![p] = "count_docs"]
  /\ IF failure # "none" THEN stats_except(p, failure)
     ELSE IF ~schema THEN stats_except(p, "operational")
     ELSE /\ cursor' = [cursor EXCEPT ![p] = <<Len(documents)>>]
          /\ pc' = [pc EXCEPT ![p] = "count_fps"]
          /\ NoPersist
          /\ UNCHANGED <<locks, txn, sent, outcome, ret, exc>>
  /\ UNCHANGED <<schema, op, ncalls, pre>>

\* lines 65-72: SELECT COUNT FROM fingerprints, close, return
stats_count_fingerprints(p, failure) ==
  /\ pc[p] = "count_fps"
  /\ ~pending
  /\ reached' = [reached EXCEPT ![p] = "count_fps"]
  /\ IF failure # "none" THEN stats_except(p, failure)
     ELSE Finish(p, "returned", stats_result(cursor[p][1], Len(fingerprints)), "none")
  /\ UNCHANGED <<schema, op, ncalls, pre>>

\* The busy timeout of either statement: an OperationalError.
stats_busy(p) ==
  /\ pc[p] \in {"count_docs", "count_fps"}
  /\ pending
  /\ reached' = [reached EXCEPT ![p] = pc[p]]
  /\ stats_except(p, "operational")
  /\ UNCHANGED <<schema, op, ncalls, pre>>

\* The process running the call dies: its open transaction is rolled back
\* from the journal by the next connection, its locks vanish.
interrupt(p) ==
  /\ pc[p] \in {"select", "insert_doc", "insert_fps", "commit", "query", "fetch",
              "count_docs", "count_fps"}
  /\ pc' = [pc EXCEPT ![p] = "idle"]
  /\ outcome' = [outcome EXCEPT ![p] = "interrupted"]
  /\ txn' = [txn EXCEPT ![p] = EmptyTxn]
  /\ sent' = [sent EXCEPT ![p] = 0]
  /\ cursor' = [cursor EXCEPT ![p] = <<>>]
  /\ Unlock(p)
  /\ UNCHANGED <<store, op, ret, ncalls, source, wrote, exc, reached, pre>>

Next ==
  \E p \in Procs :
    \/ init_index_tables(p)
    \/ \E url \in Urls, text \in IndexTexts, opened \in BOOLEAN :
         index_document(p, url, text, opened)
    \/ \E failed \in BOOLEAN : index_select(p, failed)
    \/ \E failed \in BOOLEAN : index_insert_document(p, failed)
    \/ \E failed \in BOOLEAN : index_insert_fingerprint(p, failed)
    \/ index_commit_wait(p)
    \/ \E failed \in BOOLEAN : index_commit(p, failed)
    \/ index_busy(p)
    \/ \E text \in QueryTexts, top_k \in TopKs, opened \in BOOLEAN :
         lookup_fingerprints(p, text, top_k, opened)
    \/ \E failed \in BOOLEAN : lookup_query(p, failed)
    \/ lookup_fetch(p)
    \/ lookup_busy(p)
    \/ \E opened \in BOOLEAN : get_index_stats(p, opened)
    \/ \E failure \in Failures : stats_count_documents(p, failure)
    \/ \E failure \in Failures : stats_count_fingerprints(p, failure)
    \/ stats_busy(p)
    \/ interrupt(p)

Spec == Init /\ [][Next]_vars

(***************************************************************************)
(* The text functions on their own: each connection evaluates one call of  *)
(* normalize_text, generate_shingles or hash_shingles on a drawn input.    *)
(***************************************************************************)
MaxTextLen == 3
MaxWords == 4
MaxWindow == 3
MaxShingles == 2

\* An upper-case and a lower-case letter, a digit, the hyphen, two kinds of
\* whitespace and a symbol.
TextChars == {"A", "b", "7", "-", " ", "\t", "!"}
RawLiteral == "  Machine Learning is used in Artificial Intelligence systems!!! "
NormalizedLiteral == "machine learning is used in artificial intelligence systems"

StringsOver(chars, n) == {Concat(f, 1, n) : f \in [1..n -> chars]}
RawTexts == UNION {StringsOver(TextChars, n) : n \in 0..MaxTextLen} \cup {RawLiteral}

ShingleWords == {"a", "b-2"}
NormalizedTexts ==
  {join(ws) : ws \in UNION {[1..k -> ShingleWords] : k \in 0..MaxWords}}
    \cup {NormalizedLiteral}
WindowSizes == 1..MaxWindow \cup {ShingleSize}

HashShingles == {"a", "hello", "a b-2 a a a"}
ShingleLists == UNION {[1..k -> HashShingles] : k \in 0..MaxShingles}

NormalizeCalls == {[name |-> "normalize_text", text |-> t] : t \in RawTexts}
ShingleCalls ==
  {[name |-> "generate_shingles", text |-> t, n |-> n] :
     t \in NormalizedTexts, n \in WindowSizes}
HashCalls == {[name |-> "hash_shingles", shingles |-> l] : l \in ShingleLists}

\* Either one process is about to call normalize_text or generate_shingles,
\* or every process is about to call hash_shingles.
TextCalls ==
  {[p \in Procs |-> IF p = "p1" THEN c ELSE NoOp] : c \in NormalizeCalls \cup ShingleCalls}
    \cup [Procs -> HashCalls]

TextInit ==
  \E calls \in TextCalls :
    /\ op = calls
    /\ pc = [p \in Procs |-> IF calls[p] = NoOp THEN "idle" ELSE "call"]
    /\ schema = FALSE
    /\ documents = <<>>
    /\ fingerprints = <<>>
    /\ source = <<>>
    /\ reserved = NoProc
    /\ pending = FALSE
    /\ shared = {}
    /\ txn = [p \in Procs |-> EmptyTxn]
    /\ sent = [p \in Procs |-> 0]
    /\ cursor = [p \in Procs |-> <<>>]
    /\ outcome = [p \in Procs |-> "none"]
    /\ ret = [p \in Procs |-> NoResult]
    /\ ncalls = 0
    /\ wrote = [p \in Procs |-> FALSE]
    /\ exc = [p \in Procs |-> "none"]
    /\ reached = [p \in Procs |-> "none"]
    /\ pre = [p \in Procs |-> FALSE]

\* The call of p returns value.
TextReturn(p, value) ==
  /\ ret' = [ret EXCEPT ![p] = value]
  /\ pc' = [pc EXCEPT ![p] = "idle"]
  /\ outcome' = [outcome EXCEPT ![p] = "returned"]
  /\ ncalls' = ncalls + 1
  /\ UNCHANGED <<store, locks, op, txn, sent, cursor, source, wrote, exc, reached, pre>>

call_normalize_text(p) ==
  /\ pc[p] = "call" /\ op[p].name = "normalize_text"
  /\ TextReturn(p, normalize_text(op[p].text))

call_generate_shingles(p) ==
  /\ pc[p] = "call" /\ op[p].name = "generate_shingles"
  /\ TextReturn(p, generate_shingles(op[p].text, op[p].n))

call_hash_shingles(p) ==
  /\ pc[p] = "call" /\ op[p].name = "hash_shingles"
  /\ TextReturn(p, hash_shingles(op[p].shingles))

TextNext ==
  \E p \in Procs :
    \/ call_normalize_text(p)
    \/ call_generate_shingles(p)
    \/ call_hash_shingles(p)

TextSpec == TextInit /\ [][TextNext]_vars

(***************************************************************************)
(* Lookups against a store that earlier index_document calls have filled.  *)
(***************************************************************************)
\* The (url, text) pairs indexed so far, in commit order: at most one per url.
IndexedPairs ==
  {s \in UNION {[1..n -> Urls \X StoreTexts] : n \in 0..Cardinality(Urls)} :
     \A i, j \in 1..Len(s) : i # j => s[i][1] # s[j][1]}

RECURSIVE indexed_fingerprints(_, _)
indexed_fingerprints(s, n) ==
  IF n = 0 THEN <<>>
  ELSE indexed_fingerprints(s, n - 1)
         \o fp_rows(fingerprints_of(s[n][2]), doc_id_of(s[n][1]))

LookupInit ==
  \E s \in IndexedPairs :
    /\ schema = TRUE
    /\ documents = [i \in 1..Len(s) |-> document_row(s[i][1], s[i][2])]
    /\ fingerprints = indexed_fingerprints(s, Len(s))
    /\ source = [i \in 1..Len(s) |-> s[i][2]]
    /\ reserved = NoProc
    /\ pending = FALSE
    /\ shared = {}
    /\ pc = [p \in Procs |-> "idle"]
    /\ op = [p \in Procs |-> NoOp]
    /\ txn = [p \in Procs |-> EmptyTxn]
    /\ sent = [p \in Procs |-> 0]
    /\ cursor = [p \in Procs |-> <<>>]
    /\ outcome = [p \in Procs |-> "none"]
    /\ ret = [p \in Procs |-> NoResult]
    /\ ncalls = MaxCalls - LookupCalls
    /\ wrote = [p \in Procs |-> FALSE]
    /\ exc = [p \in Procs |-> "none"]
    /\ reached = [p \in Procs |-> "none"]
    /\ pre = [p \in Procs |-> FALSE]

LookupNext ==
  \E p \in Procs :
    \/ \E text \in LookupTexts, top_k \in LookupTopKs :
         lookup_fingerprints(p, text, top_k, TRUE)
    \/ lookup_query(p, FALSE)
    \/ lookup_fetch(p)

LookupSpec == LookupInit /\ [][LookupNext]_vars


(***************************************************************************)
(* Properties                                                              *)
(***************************************************************************)
IsPrefix(s, t) == Len(s) <= Len(t) /\ SubSeq(t, 1, Len(s)) = s

\* The hashes committed for document id, in rowid order.
stored_hashes(id) ==
  LET own == SelectSeq(fingerprints, LAMBDA r : r.document_id = id)
  IN [k \in 1..Len(own) |-> own[k].fingerprint_hash]

\* The entries of the whole fingerprint list of text whose hash the query holds.
full_match(text, hashes) ==
  Cardinality({k \in 1..Len(FingerprintsOf[text]) : FingerprintsOf[text][k] \in hashes})

IndexCall(p) == op[p].name = "index_document"
Returned(p) == pc[p] = "idle" /\ outcome[p] = "returned"
StorageFailures == {"io", "unable to open", "no such table", "locked"}

RECURSIVE SumFingerprints(_)
SumFingerprints(i) ==
  IF i = 0 THEN 0 ELSE Len(FingerprintsOf[source[i]]) + SumFingerprints(i - 1)

\* C1: what a lookup can read is, for every document, either no row and no
\* fingerprint entry, or the row with the whole fingerprint list of its text;
\* every match_count a running lookup holds was counted against the whole
\* list of the document, whatever index_document calls are running or were
\* interrupted.
C1_LookupSeesAllOrNothing ==
  /\ \A u \in Urls :
       IF \E i \in 1..Len(documents) : documents[i].id = DocIdOf[u]
       THEN \E i \in 1..Len(documents) :
              /\ documents[i].id = DocIdOf[u]
              /\ stored_hashes(DocIdOf[u]) = FingerprintsOf[source[i]]
       ELSE stored_hashes(DocIdOf[u]) = <<>>
  /\ \A p \in Procs : pc[p] = "fetch" =>
       \A k \in 1..Len(cursor[p]) :
         \E i \in 1..Len(documents) :
           /\ documents[i].id = cursor[p][k].document_id
           /\ cursor[p][k].match_count =
                full_match(source[i], {FingerprintsOf[op[p].text][n] :
                                         n \in 1..Len(FingerprintsOf[op[p].text])})

\* A lookup holds its rows while another call has written part of its entries.
C1_Witness ==
  \E p, q \in Procs :
    /\ pc[p] = "fetch" /\ cursor[p] # <<>>
    /\ IndexCall(q) /\ pc[q] = "insert_fps"
    /\ txn[q].fingerprints # <<>>
    /\ Len(txn[q].fingerprints) < Len(FingerprintsOf[op[q].text])

\* C2: a step in which index_document fails at the document insert, at a
\* fingerprint insert or at the commit, or is interrupted before the commit
\* completes, leaves the committed rows as they were, and nothing the call
\* wrote is or was in the committed store.
C2_FailedIndexWritesNothing ==
  [][\A p \in Procs :
       (/\ IndexCall(p)
        /\ pc[p] \in {"insert_doc", "insert_fps", "commit"}
        /\ pc'[p] = "idle"
        /\ \/ outcome'[p] = "interrupted"
           \/ outcome'[p] = "returned" /\ ret'[p].status = "error")
       => /\ documents' = documents
          /\ fingerprints' = fingerprints
          /\ ~wrote[p] /\ ~wrote'[p]
          /\ \A i \in 1..Len(txn[p].documents) :
               /\ \A j \in 1..Len(documents') : documents'[j].id # txn[p].documents[i].id
               /\ \A k \in 1..Len(fingerprints') :
                    fingerprints'[k].document_id # txn[p].documents[i].id]_vars

\* A call whose commit failed after every row was written.
C2_Witness ==
  \E p \in Procs :
    /\ IndexCall(p) /\ Returned(p)
    /\ ret[p].status = "error" /\ reached[p] = "commit" /\ exc[p] = "io"
    /\ ~wrote[p]

\* C3: every index_document call that met a storage failure returned a result
\* with status error and fingerprint_count 0.
C3_EveryFailureReturnsError ==
  \A p \in Procs :
    (IndexCall(p) /\ pc[p] = "idle" /\ exc[p] \in StorageFailures)
      => /\ outcome[p] = "returned"
         /\ ret[p].status = "error"
         /\ ret[p].fingerprint_count = 0

\* C4: an index_document call for a url whose row was committed when the call
\* started never writes: it does not go past the existence check, the row of
\* the url stays, and when its storage accesses succeed it returns skipped
\* with fingerprint_count 0, whatever its text.
C4_ReindexSkips ==
  \A p \in Procs :
    (IndexCall(p) /\ pre[p])
      => /\ ~wrote[p]
         /\ txn[p] = EmptyTxn
         /\ pc[p] \in {"idle", "select"}
         /\ \E i \in 1..Len(documents) : documents[i].url = op[p].url
         /\ (Returned(p) /\ exc[p] = "none")
              => ret[p] = [status |-> "skipped", fingerprint_count |-> 0,
                           doc_id |-> DocIdOf[op[p].url]]

\* A second call on an indexed url, with another text, was skipped.
C4_Witness ==
  \E p \in Procs :
    /\ IndexCall(p) /\ pre[p] /\ Returned(p)
    /\ ret[p].status = "skipped"
    /\ FingerprintsOf[op[p].text] # <<>>
    /\ \E i \in 1..Len(documents) :
         documents[i].url = op[p].url /\ source[i] # op[p].text

\* C5: of two index_document calls for the same url that was not indexed
\* when either started, with text that yields fingerprints and no storage
\* failure, one returned indexed and the other skipped.
C5_DuplicateNeverError ==
  \A p, q \in Procs :
    (/\ p # q
     /\ IndexCall(p) /\ IndexCall(q)
     /\ op[p].url = op[q].url
     /\ ~pre[p] /\ ~pre[q]
     /\ Returned(p) /\ Returned(q)
     /\ exc[p] \notin StorageFailures /\ exc[q] \notin StorageFailures
     /\ FingerprintsOf[op[p].text] # <<>> /\ FingerprintsOf[op[q].text] # <<>>)
      => {ret[p].status, ret[q].status} = {"indexed", "skipped"}

\* C6: no two committed document rows share a url or an id, every id is the
\* digest of its url, and the entries stored for an id are as many as one
\* call writes for the text of the row.
C6_UniqueUrlAndId ==
  /\ \A i, j \in 1..Len(documents) :
       i # j => (documents[i].url # documents[j].url /\ documents[i].id # documents[j].id)
  /\ \A i \in 1..Len(documents) :
       /\ documents[i].id = DocIdOf[documents[i].url]
       /\ Len(stored_hashes(documents[i].id)) = Len(FingerprintsOf[source[i]])

\* Two calls on one url ran together: one indexed it, the other hit the
\* constraint.
C6_Witness ==
  \E p, q \in Procs :
    /\ p # q /\ IndexCall(p) /\ IndexCall(q) /\ op[p].url = op[q].url
    /\ Returned(p) /\ Returned(q)
    /\ ret[p].status = "indexed" /\ exc[q] = "integrity"

\* C7: every committed document row owns at least one fingerprint entry, its
\* entries are the fingerprint list of its text, one per shingle occurrence in
\* order, and every entry names a committed document row.
C7_EntriesAreTheTextsFingerprints ==
  /\ \A i \in 1..Len(documents) :
       /\ Len(stored_hashes(documents[i].id)) >= 1
       /\ stored_hashes(documents[i].id) = FingerprintsOf[source[i]]
  /\ \A k \in 1..Len(fingerprints) :
       \E i \in 1..Len(documents) : documents[i].id = fingerprints[k].document_id

\* A committed document whose text repeats a shingle holds its hash twice.
C7_Witness ==
  \E i \in 1..Len(documents) :
    LET h == stored_hashes(documents[i].id)
    IN Len(h) = 2 /\ h[1] = h[2]

\* C8: no step of index_document, lookup_fingerprints, get_index_stats or
\* init_index_tables removes or changes a committed document row or
\* fingerprint entry: the committed rows before the step are a prefix of the
\* committed rows after it.
C8_IndexOnlyGrows ==
  [][IsPrefix(documents, documents') /\ IsPrefix(fingerprints, fingerprints')]_vars

\* A lookup and a stats call have answered from a store that holds a document.
C8_Witness ==
  /\ Len(documents) >= 1
  /\ \E p, q \in Procs :
       /\ op[p].name = "lookup_fingerprints" /\ Returned(p) /\ ret[p] # <<>>
       /\ op[q].name = "get_index_stats" /\ Returned(q) /\ ret[q].documents >= 1

\* C9: an index_document call whose text yields no fingerprint never writes
\* and never goes past the existence check; when its storage accesses succeed
\* it returns skipped with fingerprint_count 0. A call with fingerprints that
\* finds no row of its url and meets no failure returns indexed.
C9_EmptyTextSkipsAndWritesNothing ==
  \A p \in Procs :
    IndexCall(p) =>
      IF FingerprintsOf[op[p].text] = <<>>
      THEN /\ ~wrote[p]
           /\ txn[p] = EmptyTxn
           /\ pc[p] \in {"idle", "select"}
           /\ (Returned(p) /\ exc[p] = "none")
                => ret[p] = [status |-> "skipped", fingerprint_count |-> 0,
                             doc_id |-> DocIdOf[op[p].url]]
      ELSE (Returned(p) /\ exc[p] = "none" /\ reached[p] # "select")
             => (ret[p].status = "indexed" /\ wrote[p])

\* A call with symbol-only text found no row and was skipped; a call with
\* text on the same url was indexed afterwards.
C9_Witness ==
  \E p, q \in Procs :
    /\ p # q /\ IndexCall(p) /\ IndexCall(q) /\ op[p].url = op[q].url
    /\ FingerprintsOf[op[p].text] = <<>> /\ Returned(p)
    /\ ret[p].status = "skipped" /\ reached[p] = "fingerprints"
    /\ Returned(q) /\ ret[q].status = "indexed"

\* C10: document rows of distinct urls have distinct ids, each owns a whole
\* copy of the fingerprint list of its text, the fingerprint entries number
\* the sum of those lists, and a call with fingerprint-yielding text that
\* meets no storage failure returns indexed with the count of its text unless
\* a row of its own url was committed by another call.
C10_DistinctUrlsOwnCopies ==
  /\ \A i, j \in 1..Len(documents) : i # j => documents[i].id # documents[j].id
  /\ \A i \in 1..Len(documents) :
       stored_hashes(documents[i].id) = FingerprintsOf[source[i]]
  /\ Len(fingerprints) = SumFingerprints(Len(documents))
  /\ \A p \in Procs :
       (/\ IndexCall(p) /\ Returned(p)
        /\ exc[p] \notin StorageFailures
        /\ FingerprintsOf[op[p].text] # <<>>)
         => \/ /\ ret[p].status = "indexed"
               /\ ret[p].fingerprint_count = Len(FingerprintsOf[op[p].text])
               /\ wrote[p]
            \/ /\ ret[p].status \in {"skipped", "error"}
               /\ ~wrote[p]
               /\ \E i \in 1..Len(documents) : documents[i].url = op[p].url

\* One text was indexed under two urls: two rows, twice its fingerprints.
C10_Witness ==
  /\ Len(documents) = 2
  /\ source[1] = source[2]
  /\ documents[1].url # documents[2].url
  /\ Len(fingerprints) = 2 * Len(FingerprintsOf[source[1]])
  /\ \E p, q \in Procs :
       /\ p # q /\ IndexCall(p) /\ IndexCall(q)
       /\ Returned(p) /\ Returned(q)
       /\ ret[p].status = "indexed" /\ ret[q].status = "indexed"


\* C11: every result index_document returns has status indexed, skipped or
\* error and the digest of its url as doc_id; with status indexed its
\* fingerprint_count is the number of entries the call committed for that id,
\* at least 1; with status skipped or error it is 0 and the call committed
\* nothing.
C11_ResultShape ==
  \A p \in Procs :
    (IndexCall(p) /\ Returned(p))
      => /\ ret[p].status \in {"indexed", "skipped", "error"}
         /\ ret[p].doc_id = DocIdOf[op[p].url]
         /\ ret[p].status = "indexed"
              => /\ wrote[p]
                 /\ ret[p].fingerprint_count >= 1
                 /\ ret[p].fingerprint_count = Len(stored_hashes(ret[p].doc_id))
         /\ ret[p].status \in {"skipped", "error"}
              => (ret[p].fingerprint_count = 0 /\ ~wrote[p])

\* One call indexed a url with two entries; another call on it ended in error
\* with the same doc_id.
C11_Witness ==
  \E p, q \in Procs :
    /\ p # q /\ IndexCall(p) /\ IndexCall(q) /\ Returned(p) /\ Returned(q)
    /\ ret[p].status = "indexed" /\ ret[p].fingerprint_count = 2
    /\ ret[q].status = "error" /\ ret[q].doc_id = ret[p].doc_id


LookupCall(p) == op[p].name = "lookup_fingerprints"

\* The hashes of the fingerprints of a query text.
query_hashes(text) == {FingerprintsOf[text][n] : n \in 1..Len(FingerprintsOf[text])}

\* The committed entries of document id whose hash the query text holds.
entries_matching(id, text) ==
  Cardinality({n \in 1..Len(fingerprints) :
                 /\ fingerprints[n].document_id = id
                 /\ fingerprints[n].fingerprint_hash \in query_hashes(text)})

\* The ids of the entries of a returned list.
returned_ids(list) == {list[k].doc_id : k \in 1..Len(list)}

\* C12: every candidate lookup_fingerprints returns has match_count at most
\* total_fingerprints, so its similarity lies between 0 and 1.
C12_SimilarityAtMostOne ==
  \A p \in Procs :
    (LookupCall(p) /\ Returned(p))
      => \A k \in 1..Len(ret[p]) :
           /\ ret[p][k].match_count <= ret[p][k].total_fingerprints
           /\ ret[p][k].similarity >= 0
           /\ ret[p][k].similarity <= 10000

\* C13: the list lookup_fingerprints returns is in non-increasing order of
\* match_count, and no document outside it matches the query in more entries
\* than a document inside it.
C13_RankedBestFirst ==
  \A p \in Procs :
    (LookupCall(p) /\ Returned(p))
      => /\ \A k \in 1..(Len(ret[p]) - 1) :
              ret[p][k].match_count >= ret[p][k + 1].match_count
         /\ \A i \in 1..Len(documents) :
              documents[i].id \notin returned_ids(ret[p])
                => \A k \in 1..Len(ret[p]) :
                     entries_matching(documents[i].id, op[p].text)
                       <= ret[p][k].match_count

\* A lookup cut to one entry left out a document that matches in fewer entries.
C13_Witness ==
  \E p \in Procs :
    /\ LookupCall(p) /\ Returned(p) /\ op[p].top_k = 1 /\ Len(ret[p]) = 1
    /\ \E i \in 1..Len(documents) :
         /\ documents[i].id \notin returned_ids(ret[p])
         /\ entries_matching(documents[i].id, op[p].text) >= 1
         /\ entries_matching(documents[i].id, op[p].text) < ret[p][1].match_count


\* C14: two lookup_fingerprints calls with the same query text and top_k on
\* the same store contents return the same candidates in the same order.
C14_TiesDeterministic ==
  \A p, q \in Procs :
    (/\ LookupCall(p) /\ LookupCall(q)
     /\ Returned(p) /\ Returned(q)
     /\ op[p] = op[q])
      => ret[p] = ret[q]

\* The distinct hashes of the query text that document i holds.
shared_hashes(i, text) ==
  query_hashes(text) \cap {h \in query_hashes(text) :
                             \E n \in 1..Len(fingerprints) :
                               /\ fingerprints[n].document_id = documents[i].id
                               /\ fingerprints[n].fingerprint_hash = h}

\* C15: when the query's fingerprints overlap those of document D without
\* all being in D, and D shares more distinct query fingerprints than every
\* other document, a lookup that may return an entry returns D first, with a
\* similarity strictly between 0 and 1.
C15_NearDuplicateRanksFirst ==
  \A p \in Procs :
    (LookupCall(p) /\ Returned(p) /\ op[p].top_k >= 1)
      => \A d \in 1..Len(documents) :
           (/\ shared_hashes(d, op[p].text) # {}
            /\ shared_hashes(d, op[p].text) # query_hashes(op[p].text)
            /\ \A e \in 1..Len(documents) :
                 e # d => Cardinality(shared_hashes(e, op[p].text))
                            < Cardinality(shared_hashes(d, op[p].text)))
             => /\ Len(ret[p]) >= 1
                /\ ret[p][1].doc_id = documents[d].id
                /\ ret[p][1].similarity > 0
                /\ ret[p][1].similarity < 10000


\* The documents with at least one committed entry whose hash the text holds.
matching_documents(text) ==
  {i \in 1..Len(documents) : entries_matching(documents[i].id, text) >= 1}

\* C16: for every document indexed with text t, a lookup of t with top_k at
\* least the number of documents returns an entry for its url whose
\* match_count is the number of entries committed for it, equal to
\* total_fingerprints and to the fingerprint count of t, with similarity 1.
C16_SamePipeline ==
  \A p \in Procs :
    (LookupCall(p) /\ Returned(p) /\ op[p].top_k >= Len(documents))
      => \A i \in 1..Len(documents) :
           source[i] = op[p].text
             => \E k \in 1..Len(ret[p]) :
                  /\ ret[p][k].url = documents[i].url
                  /\ ret[p][k].doc_id = documents[i].id
                  /\ ret[p][k].match_count = Len(stored_hashes(documents[i].id))
                  /\ ret[p][k].match_count = Len(FingerprintsOf[source[i]])
                  /\ ret[p][k].total_fingerprints = ret[p][k].match_count
                  /\ ret[p][k].similarity = 10000

\* A lookup of a mixed-case text found the document indexed with it.
C16_Witness ==
  \E p \in Procs :
    /\ LookupCall(p) /\ Returned(p) /\ op[p].text = "Hi"
    /\ \E i \in 1..Len(documents) :
         /\ source[i] = "Hi"
         /\ \E k \in 1..Len(ret[p]) :
              ret[p][k].url = documents[i].url /\ ret[p][k].similarity = 10000

\* C17: for every top_k >= 0 the list lookup_fingerprints returns has exactly
\* min(top_k, number of documents matching the query in at least one entry)
\* entries.
C17_AtMostTopK ==
  \A p \in Procs :
    (LookupCall(p) /\ Returned(p) /\ op[p].top_k >= 0)
      => LET n == Cardinality(matching_documents(op[p].text))
         IN Len(ret[p]) = IF op[p].top_k < n THEN op[p].top_k ELSE n

\* Two documents match and top_k = 1 kept one of them.
C17_Witness ==
  \E p \in Procs :
    /\ LookupCall(p) /\ Returned(p) /\ op[p].top_k = 1
    /\ Cardinality(matching_documents(op[p].text)) = 2
    /\ Len(ret[p]) = 1

\* C18: every entry of one returned list carries the number of fingerprints
\* of the query text as total_fingerprints, and its similarity is the
\* multiple of 1/10000 nearest to match_count / total_fingerprints, whatever
\* the number of entries the candidate document holds.
C18_SimilarityIsQueryRelative ==
  \A p \in Procs :
    (LookupCall(p) /\ Returned(p))
      => \A k \in 1..Len(ret[p]) :
           LET m == ret[p][k].match_count
               t == ret[p][k].total_fingerprints
               d == (10000 * m) - (ret[p][k].similarity * t)
           IN /\ t = Len(FingerprintsOf[op[p].text])
              /\ t >= 1
              /\ m = entries_matching(ret[p][k].doc_id, op[p].text)
              /\ (IF d < 0 THEN 0 - d ELSE d) * 2 <= t

\* A candidate with two entries matched two of three query fingerprints:
\* similarity 0.6667, rounded up.
C18_Witness ==
  \E p \in Procs :
    /\ LookupCall(p) /\ Returned(p)
    /\ \E k \in 1..Len(ret[p]) :
         /\ ret[p][k].match_count = 2
         /\ ret[p][k].total_fingerprints = 3
         /\ ret[p][k].similarity = 6667
         /\ Len(stored_hashes(ret[p][k].doc_id)) = 2


\* C19: a lookup_fingerprints call whose text yields no fingerprint returns
\* the empty list at once; a call that fetches its rows returns the empty
\* list exactly when no committed entry of a committed document has a hash
\* of the query, and every entry it returns has match_count >= 1; a call
\* that returns from the query statement itself returns the empty list.
C19_NoMatchIsEmptyList ==
  [][\A p \in Procs :
       /\ (/\ pc[p] = "idle" /\ ncalls' = ncalls + 1
           /\ op'[p].name = "lookup_fingerprints"
           /\ FingerprintsOf[op'[p].text] = <<>>)
            => (pc'[p] = "idle" /\ outcome'[p] = "returned" /\ ret'[p] = <<>>)
       /\ (pc[p] = "fetch" /\ pc'[p] = "idle" /\ outcome'[p] = "returned")
            => /\ (ret'[p] = <<>>) <=> (matching_documents(op[p].text) = {})
               /\ \A k \in 1..Len(ret'[p]) : ret'[p][k].match_count >= 1
       /\ (pc[p] = "query" /\ pc'[p] = "idle" /\ outcome'[p] = "returned")
            => ret'[p] = <<>>]_vars

\* A lookup holds no row although the store holds a document.
C19_Witness ==
  \E p \in Procs :
    /\ LookupCall(p) /\ pc[p] = "fetch" /\ cursor[p] = <<>>
    /\ Len(documents) >= 1
    /\ matching_documents(op[p].text) = {}

\* C20: a lookup_fingerprints call whose storage access failed does not end
\* by returning the empty list.
C20_FailureDistinguishable ==
  \A p \in Procs :
    (LookupCall(p) /\ pc[p] = "idle" /\ exc[p] \in StorageFailures)
      => ~(outcome[p] = "returned" /\ ret[p] = <<>>)

\* The failures of the storage medium itself, as opposed to lock contention.
MediumFailures == {"io", "unable to open", "no such table"}

\* C21: a lookup_fingerprints call started when a committed document shared a
\* hash with the query, asking for at least one candidate and meeting no
\* failure of the storage medium, returns at least one candidate, whatever
\* index_document calls run beside it: they never turn it into the empty list.
C21_LookupNotFailedByIndexing ==
  \A p \in Procs :
    (/\ LookupCall(p) /\ pc[p] = "idle" /\ outcome[p] = "returned"
     /\ pre[p] /\ op[p].top_k >= 1
     /\ exc[p] \notin MediumFailures)
      => ret[p] # <<>>

NormalizeCall(p) == op[p].name = "normalize_text" /\ outcome[p] = "returned"
ShingleCall(p) == op[p].name = "generate_shingles" /\ outcome[p] = "returned"
HashCall(p) == op[p].name = "hash_shingles" /\ outcome[p] = "returned"

\* C22: normalize_text is idempotent: normalizing what a normalize_text call
\* returned gives the returned string again.
C22_NormalizeIdempotent ==
  \A p \in Procs : NormalizeCall(p) => normalize_text(ret[p]) = ret[p]

\* A call whose input had capitals, whitespace runs and symbols to remove.
C22_Witness ==
  \E p \in Procs :
    /\ NormalizeCall(p) /\ op[p].text = RawLiteral
    /\ ret[p] # op[p].text /\ ret[p] # ""

\* The letters, digits and the hyphen: what normalize_text keeps of a word.
WordChars == LowerCase \o Digits \o "-"

\* The normal form of x told from its characters alone: the kept characters
\* of x in order, lowercased, with one space between two of them exactly
\* when whitespace stood somewhere between them in x.
expected_normal_form(x) ==
  LET kept == {i \in 1..Len(x) : IndexOf(lower_char(CharAt(x, i)), WordChars) > 0}
      kth(k) == CHOOSE i \in kept : Cardinality({j \in kept : j <= i}) = k
      gap(k) == k > 1 /\ \E j \in (kth(k - 1) + 1)..(kth(k) - 1) : IsSpace(CharAt(x, j))
  IN Concat([k \in 1..Cardinality(kept) |->
               (IF gap(k) THEN " " ELSE "") \o lower_char(CharAt(x, kth(k)))],
            1, Cardinality(kept))

\* C23: what normalize_text returns is made of a-z, digits, hyphens and
\* spaces only, has no space at either end and no two spaces in a row, and
\* is the input with its letters lowercased, its hyphens and digits kept,
\* its whitespace runs turned into one space and every other character
\* deleted without a space in its place; an input without a letter, digit
\* or hyphen gives the empty string.
C23_NormalFormShape ==
  \A p \in Procs : NormalizeCall(p) =>
    LET x == op[p].text
        y == ret[p]
    IN /\ \A i \in 1..Len(y) : IndexOf(CharAt(y, i), WordChars \o " ") > 0
       /\ y # "" => CharAt(y, 1) # " " /\ CharAt(y, Len(y)) # " "
       /\ \A i \in 1..(Len(y) - 1) : ~(CharAt(y, i) = " " /\ CharAt(y, i + 1) = " ")
       /\ y = expected_normal_form(x)
       /\ (\A i \in 1..Len(x) : IndexOf(lower_char(CharAt(x, i)), WordChars) = 0) => y = ""

\* A symbol between two letters was deleted and the letters joined.
C23_Witness ==
  \E p \in Procs :
    /\ NormalizeCall(p) /\ op[p].text = "A!b" /\ ret[p] = "ab"

\* C24: for a normalized text of w words and a window size n >= 1,
\* generate_shingles returns, when w >= n, the w - n + 1 runs of n
\* consecutive words joined by single spaces, in document order; when
\* 0 < w < n, the whole text as its only shingle; for the empty text, nothing.
C24_ShinglesOfNormalizedText ==
  \A p \in Procs : ShingleCall(p) =>
    LET text == op[p].text
        n == op[p].n
        words == split(text)
        w == Len(words)
    IN /\ w >= n =>
            /\ Len(ret[p]) = w - n + 1
            /\ \A i \in 1..(w - n + 1) :
                 ret[p][i] = join([k \in 1..n |-> words[i + k - 1]])
       /\ (0 < w /\ w < n) => ret[p] = <<text>>
       /\ text = "" => ret[p] = <<>>

\* A call on four words with window size 3 returned its two windows.
C24_Witness ==
  \E p \in Procs :
    /\ ShingleCall(p) /\ op[p].text = "a b-2 a a" /\ op[p].n = 3
    /\ ret[p] = <<"a b-2 a", "b-2 a a">>

\* C25: the normalized literal of the example has 8 words, and
\* generate_shingles on it with n = 5 yields exactly 4 shingles.
C25_LiteralEightWordsFourShingles ==
  \A p \in Procs :
    (ShingleCall(p) /\ op[p].text = NormalizedLiteral /\ op[p].n = ShingleSize)
      => /\ Len(split(op[p].text)) = 8
         /\ Len(ret[p]) = 4

\* generate_shingles returned for the literal and n = 5.
C25_Witness ==
  \E p \in Procs :
    /\ ShingleCall(p) /\ op[p].text = NormalizedLiteral /\ op[p].n = ShingleSize
    /\ ret[p][1] = "machine learning is used in"
    /\ ret[p][Len(ret[p])] = "used in artificial intelligence systems"

\* C25 as stated: the normalized literal is a 9-word string and
\* generate_shingles on it with n = 5 yields exactly 5 shingles.
C25_LiteralNineWordsFiveShingles ==
  \A p \in Procs :
    (ShingleCall(p) /\ op[p].text = NormalizedLiteral /\ op[p].n = ShingleSize)
      => /\ Len(split(op[p].text)) = 9
         /\ Len(ret[p]) = 5

\* MurmurHash3 x86_32 with seed 0 of the shingles hashed, as <<high, low>>.
ReferenceHash ==
  [s \in HashShingles |->
     CASE s = "a" -> <<15397, 27058>>
       [] s = "hello" -> <<9355, 64071>>
       [] s = "a b-2 a a a" -> <<3100, 37874>>]

\* C26: hash_shingles returns one integer of 0..2^32-1 per shingle, in the
\* order of the shingles; a shingle has the same hash wherever it stands in
\* the list and whichever process hashes it, namely its MurmurHash3 value
\* with seed 0.
C26_HashesStableAndInRange ==
  /\ \A p \in Procs : HashCall(p) =>
       /\ Len(ret[p]) = Len(op[p].shingles)
       /\ \A i \in 1..Len(ret[p]) :
            /\ ret[p][i][1] \in 0..(Half - 1) /\ ret[p][i][2] \in 0..(Half - 1)
            /\ ret[p][i] = ReferenceHash[op[p].shingles[i]]
  /\ \A p, q \in Procs : (HashCall(p) /\ HashCall(q)) =>
       \A i \in 1..Len(ret[p]), j \in 1..Len(ret[q]) :
         op[p].shingles[i] = op[q].shingles[j] => ret[p][i] = ret[q][j]

\* Two processes hashed lists that hold the same shingle at different places.
C26_Witness ==
  \E p, q \in Procs :
    /\ p # q /\ HashCall(p) /\ HashCall(q)
    /\ op[p].shingles = <<"hello", "a">> /\ op[q].shingles = <<"a", "a">>
    /\ ret[p][2] = ret[q][1] /\ ret[q][1] = ret[q][2] /\ ret[p][1] # ret[p][2]

\* The committed entries of document id with hash h.
entries_with_hash(id, h) ==
  Cardinality({n \in 1..Len(fingerprints) :
                 fingerprints[n].document_id = id /\ fingerprints[n].fingerprint_hash = h})

RECURSIVE SumOver(_, _)
SumOver(f, S) ==
  IF S = {} THEN 0
  ELSE LET x == CHOOSE y \in S : TRUE IN f[x] + SumOver(f, S \ {x})

\* C27: the match_count of every returned candidate is the number of entries
\* stored for it whose hash is a hash of the query: each hash of the query
\* contributes as many times as the document stores it.
C27_MatchCountWithMultiplicity ==
  \A p \in Procs :
    (LookupCall(p) /\ Returned(p))
      => \A k \in 1..Len(ret[p]) :
           LET H == query_hashes(op[p].text)
               id == ret[p][k].doc_id
           IN ret[p][k].match_count = SumOver([h \in H |-> entries_with_hash(id, h)], H)

\* A query of one fingerprint matched a document that stores it three times.
C27_Witness ==
  \E p \in Procs :
    /\ LookupCall(p) /\ Returned(p)
    /\ Len(FingerprintsOf[op[p].text]) = 1
    /\ \E k \in 1..Len(ret[p]) :
         /\ ret[p][k].match_count = 3
         /\ entries_with_hash(ret[p][k].doc_id, FingerprintsOf[op[p].text][1]) = 3

\* C28: two lookups whose texts have the same set of distinct hashes report
\* the same match_count for a document both return, however often a hash is
\* repeated in either text; total_fingerprints of every entry is the number
\* of fingerprints of the query text, repetitions counted.
C28_QueryRepetitionOnlyInTotal ==
  /\ \A p, q \in Procs :
       (/\ LookupCall(p) /\ Returned(p) /\ LookupCall(q) /\ Returned(q)
        /\ query_hashes(op[p].text) = query_hashes(op[q].text))
         => \A k \in 1..Len(ret[p]), l \in 1..Len(ret[q]) :
              ret[p][k].doc_id = ret[q][l].doc_id
                => ret[p][k].match_count = ret[q][l].match_count
  /\ \A p \in Procs :
       (LookupCall(p) /\ Returned(p))
         => \A k \in 1..Len(ret[p]) :
              /\ ret[p][k].total_fingerprints = Len(FingerprintsOf[op[p].text])
              /\ ret[p][k].match_count
                   <= Len(stored_hashes(ret[p][k].doc_id))

\* One lookup repeated its only hash three times, the other held it once:
\* the same match_count for the same document, totals 3 and 1.
C28_Witness ==
  \E p, q \in Procs :
    /\ LookupCall(p) /\ Returned(p) /\ LookupCall(q) /\ Returned(q)
    /\ op[p].text = "x x x x x x x" /\ op[q].text = "x x x x x"
    /\ \E k \in 1..Len(ret[p]), l \in 1..Len(ret[q]) :
         /\ ret[p][k].doc_id = ret[q][l].doc_id
         /\ ret[p][k].match_count = ret[q][l].match_count
         /\ ret[p][k].total_fingerprints = 3
         /\ ret[q][l].total_fingerprints = 1

\* C29: when every process has made one index_document call, on pairwise
\* distinct urls of an empty index with fingerprint-yielding texts, and no
\* call met a failure of the storage medium or was interrupted, then every
\* call that has returned returned "indexed" and its url has its document
\* row and the whole fingerprint list of its text.
C29_ContentionNeverFails ==
  (/\ ncalls = Cardinality(Procs)
   /\ \A p \in Procs :
        /\ IndexCall(p) /\ FingerprintsOf[op[p].text] # <<>>
        /\ exc[p] \notin MediumFailures /\ outcome[p] # "interrupted"
   /\ \A p, q \in Procs : p # q => op[p].url # op[q].url)
    => \A p \in Procs : Returned(p) =>
         /\ ret[p].status = "indexed"
         /\ \E i \in 1..Len(documents) : documents[i].url = op[p].url
         /\ stored_hashes(DocIdOf[op[p].url]) = FingerprintsOf[op[p].text]

\* C30: no step of a lookup_fingerprints call changes the committed rows:
\* when the call starts, runs its query, fetches its rows, meets a storage
\* error or is cut short, the document rows and the fingerprint entries are
\* after the step what they were before it, and the call holds no unwritten
\* row.
C30_LookupReadOnly ==
  [][\A p \in Procs :
       (/\ op'[p].name = "lookup_fingerprints"
        /\ \/ pc[p] \in {"query", "fetch"} /\ pc'[p] # pc[p]
           \/ /\ pc[p] = "idle" /\ ncalls' = ncalls + 1
              /\ \A q \in Procs \ {p} : pc'[q] = pc[q] /\ op'[q] = op[q])
         => /\ documents' = documents
            /\ fingerprints' = fingerprints
            /\ schema' = schema
            /\ txn'[p] = EmptyTxn
            /\ ~wrote'[p]]_vars

\* Lookups ended in each way against a filled store: one with candidates,
\* one with a storage error.
C30_Witness ==
  \E p, q \in Procs :
    /\ LookupCall(p) /\ Returned(p) /\ exc[p] = "none" /\ ret[p] # <<>>
    /\ LookupCall(q) /\ Returned(q) /\ exc[q] \in StorageFailures
    /\ Len(documents) >= 1 /\ Len(fingerprints) >= 1

=============================================================================
